---- MODULE Spec2Model ----
(***************************************************************************)
(* Lifecycle of the ambient-sound controller of app/page.jsx               *)
(* (AmbientSoundApp): React state, the refs that hold the processing       *)
(* session, the asynchronous start attempts (getUserMedia, engine resume), *)
(* the 100 ms restart timers, the animation-frame meter loop and the       *)
(* media-session handlers.                                                 *)
(*                                                                         *)
(* JavaScript runs one task at a time, so every handler and every promise  *)
(* continuation is one atomic action.  A start attempt is split at its two *)
(* suspension points (await getUserMedia, await audioContext.resume()).    *)
(*                                                                         *)
(* A function created by useCallback sees the state of the render that     *)
(* created it.  Handlers bound in the JSX belong to the latest render and  *)
(* read the current state; a function handed to setTimeout or to           *)
(* navigator.mediaSession keeps the state of the render that handed it     *)
(* over.  Each start attempt therefore carries the snapshot of the         *)
(* preferences its closure was created with.                               *)
(*                                                                         *)
(* Assumed of the platform: navigator.mediaDevices, AudioContext and       *)
(* navigator.mediaSession exist (isSupported stays true).  latencyMode is  *)
(* never set and is left out, as are sourceNodeRef and compressorRef,      *)
(* which are stored and cleared with the other chain refs and never read.  *)
(* A start attempt is named by its number; streams, engines and nodes are  *)
(* named by the attempt that created them, and a ref holds such a number   *)
(* or NoRef.  A meter loop is named by the attempt that began it and has   *)
(* at most one animation frame requested at a time.                        *)
(*                                                                         *)
(* The hook useAudioProcessor of components/ui/Slider.jsx is used by no    *)
(* component; its cleanup and updateAudioLevel repeat those of page.jsx    *)
(* (its cleanup has no chain refs to clear) and are modelled by them.      *)
(***************************************************************************)
EXTENDS Integers, FiniteSets, Sequences, TLC

\* ---------------------------------------------------------------- bounds
\* number of user and remote events (clicks, slider moves, toggles,
\* media-session actions, unmount) explored in one run; every start attempt
\* is invoked or scheduled by one of them
MaxEvents == 3
\* number of samples in the analyser buffer (frequencyBinCount)
BufLen == 2

\* ------------------------------------------------------- program constants
DefaultMicGain == 80
DefaultOutputVolume == 60
CutoffEnabled == 200
CutoffDisabled == 80
VolumeStep == 10
MaxVolume == 100
MinVolume == 0
LevelBoost == 3
MaxLevel == 100
SampleCentre == 128

\* ------------------------------------------------------------ input sets
Attempts == 1..MaxEvents
NoRef == 0
\* values the sliders deliver (Slider.jsx: integers in min..max)
MicGainInputs == {0, 45}
VolumeInputs == {0, 95}
\* unsigned 8-bit samples read from the analyser
SampleInputs == {0, 1, 64, 127, 128, 129, 140, 170, 171, 192, 254, 255}
Buffers == [1..BufLen -> SampleInputs]
\* what the analyser delivers to the running meter: a square wave at full
\* scale, so that every write of the meter shows in audioLevel
MeterBuffers ==
  {[k \in 1..BufLen |-> IF k % 2 = 1 THEN 0 ELSE 255]}
\* err.name of a rejected getUserMedia
CaptureErrorNames ==
  {"NotAllowedError", "NotFoundError", "NotReadableError", "OverconstrainedError"}
\* err.name of a failed engine construction or resume
EngineErrorName == "NotSupportedError"
NoError == "null"

VARIABLES
  mounted,          \* the component is mounted (its state exists)
  isActive, micGain, outputVolume, audioLevel, error,
  echoCancel, noiseSuppress, autoGainControl,
  playbackState,    \* navigator.mediaSession.playbackState
  streamRef, audioContextRef, gainNodeRef, outputGainRef,
  analyserRef, filterRef, animationFrameRef,
  pc,               \* per start attempt: where the async function stands
  origin,           \* per start attempt: who invoked it
  snap,             \* per start attempt: the state its closure captured
  constraints,      \* per start attempt: the getUserMedia request
  stream,           \* per start attempt: the MediaStream it acquired
  engine,           \* per start attempt: the AudioContext it created
  inputGainValue, outputGainValue, filterFreq,  \* per attempt: node params
  rafPending,       \* meter loops with a requested animation frame
  dataArray,        \* the samples updateAudioLevel read last
  stopRequested,    \* history: attempts suspended when a stop was issued
  staleTimer,       \* history: attempts whose delay saw a stop or a start
  events            \* number of user and remote events so far

prefVars == <<micGain, outputVolume, echoCancel, noiseSuppress, autoGainControl>>
chainRefs == <<audioContextRef, gainNodeRef, outputGainRef, analyserRef, filterRef>>
refVars == <<streamRef, audioContextRef, gainNodeRef, outputGainRef,
             analyserRef, filterRef, animationFrameRef>>
nodeVars == <<inputGainValue, outputGainValue, filterFreq>>
attemptVars == <<pc, origin, snap, constraints>>
histVars == <<stopRequested, staleTimer>>
asyncVars == <<stopRequested, staleTimer, events>>
vars == <<mounted, isActive, micGain, outputVolume, audioLevel, error,
          echoCancel, noiseSuppress, autoGainControl, playbackState,
          streamRef, audioContextRef, gainNodeRef, outputGainRef,
          analyserRef, filterRef, animationFrameRef,
          pc, origin, snap, constraints, stream, engine,
          inputGainValue, outputGainValue, filterFreq, rafPending, dataArray,
          stopRequested, staleTimer, events>>

\* ---------------------------------------------------------------- helpers
Min(a, b) == IF a < b THEN a ELSE b
Max(a, b) == IF a > b THEN a ELSE b

\* one more user or remote event, while the run's budget lasts
Event ==
  /\ events < MaxEvents
  /\ events' = events + 1

\* a React state setter: ignored once the component is unmounted
SetState(cur, new) == IF mounted THEN new ELSE cur

\* value[0] / 100, kept exact as numerator and denominator
Gain(percent) == <<percent, 100>>
\* a GainNode's gain before it is assigned
DefaultGain == <<1, 1>>

\* the state a render hands to the callbacks it creates
CurrentRender ==
  [isActive |-> isActive, echoCancel |-> echoCancel,
   noiseSuppress |-> noiseSuppress, autoGainControl |-> autoGainControl,
   micGain |-> micGain, outputVolume |-> outputVolume]

\* the first render: useState defaults
InitialRender ==
  [isActive |-> FALSE, echoCancel |-> TRUE, noiseSuppress |-> TRUE,
   autoGainControl |-> FALSE, micGain |-> DefaultMicGain,
   outputVolume |-> DefaultOutputVolume]

NoConstraints ==
  [echoCancellation |-> FALSE, noiseSuppression |-> FALSE, autoGainControl |-> FALSE]

Cutoff(flag) == IF flag THEN CutoffEnabled ELSE CutoffDisabled

Suspended == {i \in Attempts : pc[i] \in {"acquiring", "resuming"}}
Scheduled == {i \in Attempts : pc[i] = "timer"}
Unused == {i \in Attempts : pc[i] = "unused"}
NextId == CHOOSE i \in Unused : \A j \in Unused : i <= j

LiveStreams == {i \in Attempts : stream[i] = "live"}
OpenEngines == {i \in Attempts : engine[i] \in {"running", "suspended"}}

\* ------------------------------------------------------------ level meter
SumSquares(buf) ==
  LET RECURSIVE Acc(_)
      Acc(k) == IF k = 0 THEN 0
                ELSE Acc(k - 1) + (buf[k] - SampleCentre) * (buf[k] - SampleCentre)
  IN Acc(Len(buf))

\* Math.round(Math.sqrt(sum / n) * 100 * 3) with sample = (d - 128) / 128:
\* the largest k with k - 1/2 <= 300 * sqrt(S / (128^2 * n)), that is
\* (2k - 1)^2 * 128^2 * n <= 4 * 300^2 * S; both sides divided by 64.
RoundedLevel(buf) ==
  LET S == SumSquares(buf)
      n == Len(buf)
      top == 100 * LevelBoost
      Reaches(k) == k = 0 \/ (2 * k - 1) * (2 * k - 1) * 256 * n
                               <= 625 * LevelBoost * LevelBoost * S
  IN CHOOSE k \in 0..top : Reaches(k) /\ (k = top \/ ~Reaches(k + 1))

\* the level with Math.min(100, ...) forgotten
LevelUnclamped(buf) == RoundedLevel(buf)

Level(buf) == Min(MaxLevel, RoundedLevel(buf))

\* the level of every buffer the meter may read, tabulated once (@@ yields
\* the explicit function)
MeterLevel == [buf \in Buffers |-> Level(buf)] @@ <<>>

\* updateAudioLevel, run with analyserRef.current = an and the set `pending`
\* of frames still requested; `loop` names the meter loop that runs it.
updateAudioLevel(an, pending, loop, buf) ==
  IF an = NoRef
  THEN /\ rafPending' = pending
       /\ UNCHANGED <<audioLevel, animationFrameRef, dataArray>>
  ELSE /\ dataArray' = buf
       /\ audioLevel' = SetState(audioLevel, MeterLevel[buf])
       /\ animationFrameRef' = loop
       /\ rafPending' = pending \cup {loop}

\* ------------------------------------------------------------------ Init
Init ==
  /\ mounted = TRUE
  /\ isActive = FALSE
  /\ micGain = DefaultMicGain
  /\ outputVolume = DefaultOutputVolume
  /\ audioLevel = 0
  /\ error = NoError
  /\ echoCancel = TRUE
  /\ noiseSuppress = TRUE
  /\ autoGainControl = FALSE
  /\ playbackState = "none"
  /\ streamRef = NoRef
  /\ audioContextRef = NoRef
  /\ gainNodeRef = NoRef
  /\ outputGainRef = NoRef
  /\ analyserRef = NoRef
  /\ filterRef = NoRef
  /\ animationFrameRef = NoRef
  /\ pc = [i \in Attempts |-> "unused"]
  /\ origin = [i \in Attempts |-> "none"]
  /\ snap = [i \in Attempts |-> InitialRender]
  /\ constraints = [i \in Attempts |-> NoConstraints]
  /\ stream = [i \in Attempts |-> "none"]
  /\ engine = [i \in Attempts |-> "none"]
  /\ inputGainValue = [i \in Attempts |-> DefaultGain]
  /\ outputGainValue = [i \in Attempts |-> DefaultGain]
  /\ filterFreq = [i \in Attempts |-> 0]
  /\ rafPending = {}
  /\ dataArray = <<>>
  /\ stopRequested = {}
  /\ staleTimer = {}
  /\ events = 0

\* ----------------------------------------------------------------- cleanup
\* cleanup(): cancel the frame held in animationFrameRef, stop the tracks of
\* the stream held in streamRef, close the engine held in audioContextRef,
\* clear every ref.
cleanup ==
  /\ rafPending' = rafPending \ {animationFrameRef}
  /\ animationFrameRef' = NoRef
  /\ stream' = IF streamRef # NoRef
               THEN [stream EXCEPT ![streamRef] = "stopped"] ELSE stream
  /\ streamRef' = NoRef
  /\ engine' = IF audioContextRef # NoRef /\ engine[audioContextRef] # "closed"
               THEN [engine EXCEPT ![audioContextRef] = "closed"] ELSE engine
  /\ audioContextRef' = IF audioContextRef # NoRef /\ engine[audioContextRef] # "closed"
                        THEN NoRef ELSE audioContextRef
  /\ gainNodeRef' = NoRef
  /\ outputGainRef' = NoRef
  /\ analyserRef' = NoRef
  /\ filterRef' = NoRef

\* history only: a stop or teardown was issued now
NoteStop ==
  /\ stopRequested' = stopRequested \cup Suspended
  /\ staleTimer' = staleTimer \cup Scheduled

\* history only: a start was invoked now by the user or the remote
NoteStart ==
  /\ staleTimer' = staleTimer \cup Scheduled
  /\ UNCHANGED stopRequested

\* stopAmbientSound(): cleanup, isActive false, level 0, report "paused"
stopAmbientSound ==
  /\ cleanup
  /\ isActive' = SetState(isActive, FALSE)
  /\ audioLevel' = SetState(audioLevel, 0)
  /\ playbackState' = "paused"

\* ------------------------------------------------------------------- start
\* startAmbientSound up to its first await: clear the error slot, build the
\* constraints from the closure's state s, call getUserMedia.
startAmbientSound(i, s, who) ==
  /\ error' = SetState(error, NoError)
  /\ constraints' = [constraints EXCEPT ![i] =
                       [echoCancellation |-> s.echoCancel,
                        noiseSuppression |-> s.noiseSuppress,
                        autoGainControl |-> s.autoGainControl]]
  /\ pc' = [pc EXCEPT ![i] = "acquiring"]
  /\ snap' = [snap EXCEPT ![i] = s]
  /\ origin' = [origin EXCEPT ![i] = who]

\* setTimeout(startAmbientSound, 100): the function of the current render
\* is queued; attempt i waits for the delay.
ScheduleRestart(i, s, who) ==
  /\ pc' = [pc EXCEPT ![i] = "timer"]
  /\ snap' = [snap EXCEPT ![i] = s]
  /\ origin' = [origin EXCEPT ![i] = who]
  /\ UNCHANGED constraints

\* the message the catch block of startAmbientSound builds from err.name
ErrorMessage(name) ==
  CASE name = "NotAllowedError" ->
         "Microphone access failed. Please allow microphone access in your browser settings."
    [] name = "NotFoundError" ->
         "Microphone access failed. No microphone detected. Please connect a microphone."
    [] name = "NotReadableError" ->
         "Microphone access failed. Microphone is being used by another application."
    [] OTHER ->
         "Microphone access failed. Please check your audio settings and try again."

\* catch (err): set the message; nothing is released
StartFailed(i, name) ==
  /\ error' = SetState(error, ErrorMessage(name))
  /\ pc' = [pc EXCEPT ![i] = "failed"]

\* createOptimizedAudioChain after the engine runs: the nodes are created
\* and configured from the closure's state s, then the refs are stored.
createOptimizedAudioChain(i, s) ==
  /\ filterFreq' = [filterFreq EXCEPT ![i] = Cutoff(s.noiseSuppress)]
  /\ inputGainValue' = [inputGainValue EXCEPT ![i] = Gain(s.micGain)]
  /\ outputGainValue' = [outputGainValue EXCEPT ![i] = Gain(s.outputVolume)]
  /\ audioContextRef' = i
  /\ gainNodeRef' = i
  /\ outputGainRef' = i
  /\ analyserRef' = i
  /\ filterRef' = i

\* the tail of startAmbientSound once the chain is built
StartCompleted(i, buf) ==
  /\ createOptimizedAudioChain(i, snap[i])
  /\ isActive' = SetState(isActive, TRUE)
  /\ updateAudioLevel(i, rafPending, i, buf)
  /\ playbackState' = "playing"
  /\ pc' = [pc EXCEPT ![i] = "done"]

\* getUserMedia resolves: streamRef is set, the engine is constructed; the
\* constructor throws, or the engine starts running, or it starts suspended
\* and the attempt awaits resume().
GetUserMediaResolved(i) ==
  /\ pc[i] = "acquiring"
  /\ stream' = [stream EXCEPT ![i] = "live"]
  /\ streamRef' = i
  /\ \/ /\ engine' = [engine EXCEPT ![i] = "running"]
        /\ \E buf \in MeterBuffers : StartCompleted(i, buf)
        /\ UNCHANGED error
     \/ /\ engine' = [engine EXCEPT ![i] = "suspended"]
        /\ pc' = [pc EXCEPT ![i] = "resuming"]
        /\ UNCHANGED <<error, chainRefs, animationFrameRef, nodeVars, rafPending, dataArray,
                       isActive, audioLevel, playbackState>>
     \/ /\ StartFailed(i, EngineErrorName)
        /\ UNCHANGED <<engine, chainRefs, animationFrameRef, nodeVars, rafPending, dataArray,
                       isActive, audioLevel, playbackState>>
  /\ UNCHANGED <<mounted, prefVars, origin, snap, constraints, asyncVars>>

\* getUserMedia rejects
GetUserMediaRejected(i) ==
  /\ pc[i] = "acquiring"
  /\ \E name \in CaptureErrorNames : StartFailed(i, name)
  /\ UNCHANGED <<mounted, dataArray, isActive, prefVars, audioLevel, playbackState, refVars,
                 origin, snap, constraints, stream, engine, nodeVars, rafPending,
                 asyncVars>>

\* audioContext.resume() resolves
ResumeResolved(i) ==
  /\ pc[i] = "resuming"
  /\ engine' = [engine EXCEPT ![i] = "running"]
  /\ \E buf \in MeterBuffers : StartCompleted(i, buf)
  /\ UNCHANGED <<mounted, prefVars, error, streamRef, origin, snap, constraints,
                 stream, asyncVars>>

\* the rejection of resume() swallowed: the start goes on with the engine
\* still suspended
ResumeRejectedIgnored(i) ==
  /\ pc[i] = "resuming"
  /\ \E buf \in MeterBuffers : StartCompleted(i, buf)
  /\ UNCHANGED <<mounted, prefVars, error, streamRef, origin, snap, constraints,
                 stream, engine, asyncVars>>

\* audioContext.resume() rejects
ResumeRejected(i) ==
  /\ pc[i] = "resuming"
  /\ StartFailed(i, EngineErrorName)
  /\ UNCHANGED <<mounted, dataArray, isActive, prefVars, audioLevel, playbackState, refVars,
                 origin, snap, constraints, stream, engine, nodeVars, rafPending,
                 asyncVars>>

\* the 100 ms delay elapses: the queued startAmbientSound runs
TimerFired(i) ==
  /\ pc[i] = "timer"
  /\ startAmbientSound(i, snap[i], origin[i])
  /\ UNCHANGED <<mounted, dataArray, isActive, prefVars, audioLevel, playbackState, refVars,
                 stream, engine, nodeVars, rafPending, asyncVars>>

\* requestAnimationFrame calls back the meter loop named loop
AnimationFrame(loop) ==
  /\ loop \in rafPending
  /\ \E buf \in MeterBuffers : updateAudioLevel(analyserRef, rafPending \ {loop}, loop, buf)
  /\ UNCHANGED <<mounted, isActive, prefVars, error, playbackState,
                 streamRef, chainRefs, attemptVars, stream, engine, nodeVars,
                 asyncVars>>

\* ------------------------------------------------------------ UI handlers
\* main control button: onClick={isActive ? stopAmbientSound : startAmbientSound}
MainButton ==
  /\ mounted
  /\ Event
  /\ \/ /\ isActive
        /\ stopAmbientSound
        /\ NoteStop
        /\ UNCHANGED <<mounted, dataArray, prefVars, error, attemptVars, nodeVars>>
     \/ /\ ~isActive
        /\ startAmbientSound(NextId, CurrentRender, "ui")
        /\ NoteStart
        /\ UNCHANGED <<mounted, dataArray, isActive, prefVars, audioLevel, playbackState,
                       refVars, stream, engine, nodeVars, rafPending>>

\* updateMicGain with the division by 100 forgotten
updateMicGainUnscaled(value) ==
  /\ mounted
  /\ Event
  /\ micGain' = SetState(micGain, value)
  /\ inputGainValue' = IF gainNodeRef # NoRef
                       THEN [inputGainValue EXCEPT ![gainNodeRef] = <<value, 1>>]
                       ELSE inputGainValue
  /\ UNCHANGED <<mounted, dataArray, isActive, outputVolume, audioLevel, error, echoCancel,
                 noiseSuppress, autoGainControl, playbackState, refVars,
                 attemptVars, stream, engine, outputGainValue, filterFreq,
                 rafPending, histVars>>

updateMicGain(value) ==
  /\ mounted
  /\ Event
  /\ micGain' = SetState(micGain, value)
  /\ inputGainValue' = IF gainNodeRef # NoRef
                       THEN [inputGainValue EXCEPT ![gainNodeRef] = Gain(value)]
                       ELSE inputGainValue
  /\ UNCHANGED <<mounted, dataArray, isActive, outputVolume, audioLevel, error, echoCancel,
                 noiseSuppress, autoGainControl, playbackState, refVars,
                 attemptVars, stream, engine, outputGainValue, filterFreq,
                 rafPending, histVars>>

updateOutputVolume(value) ==
  /\ mounted
  /\ Event
  /\ outputVolume' = SetState(outputVolume, value)
  /\ outputGainValue' = IF outputGainRef # NoRef
                        THEN [outputGainValue EXCEPT ![outputGainRef] = Gain(value)]
                        ELSE outputGainValue
  /\ UNCHANGED <<mounted, dataArray, isActive, micGain, audioLevel, error, echoCancel,
                 noiseSuppress, autoGainControl, playbackState, refVars,
                 attemptVars, stream, engine, inputGainValue, filterFreq,
                 rafPending, histVars>>

\* the restart the three toggles share: stopAmbientSound() now,
\* setTimeout(startAmbientSound, 100) with the function of this render
Restart(who) ==
  /\ stopAmbientSound
  /\ ScheduleRestart(NextId, CurrentRender, who)
  /\ NoteStop

NoRestart ==
  UNCHANGED <<isActive, audioLevel, playbackState, refVars, attemptVars,
              stream, engine, rafPending, histVars>>

toggleEchoCancel ==
  /\ mounted
  /\ Event
  /\ echoCancel' = SetState(echoCancel, ~echoCancel)
  /\ IF isActive THEN Restart("toggleEchoCancel") ELSE NoRestart
  /\ UNCHANGED <<mounted, dataArray, micGain, outputVolume, error, noiseSuppress,
                 autoGainControl, nodeVars>>

toggleNoiseSuppress ==
  /\ mounted
  /\ Event
  /\ noiseSuppress' = SetState(noiseSuppress, ~noiseSuppress)
  /\ filterFreq' = IF filterRef # NoRef
                   THEN [filterFreq EXCEPT ![filterRef] = Cutoff(~noiseSuppress)]
                   ELSE filterFreq
  /\ IF isActive /\ ~noiseSuppress THEN Restart("toggleNoiseSuppress") ELSE NoRestart
  /\ UNCHANGED <<mounted, dataArray, micGain, outputVolume, error, echoCancel,
                 autoGainControl, inputGainValue, outputGainValue>>

toggleAutoGain ==
  /\ mounted
  /\ Event
  /\ autoGainControl' = SetState(autoGainControl, ~autoGainControl)
  /\ IF isActive THEN Restart("toggleAutoGain") ELSE NoRestart
  /\ UNCHANGED <<mounted, dataArray, micGain, outputVolume, error, echoCancel,
                 noiseSuppress, nodeVars>>

\* ------------------------------------------------- media-session handlers
\* Registered once by the mount effect (deps [cleanup], and cleanup never
\* changes), so they keep the functions and the state of the first render.
MediaPlay ==
  /\ Event
  /\ IF ~InitialRender.isActive
     THEN /\ startAmbientSound(NextId, InitialRender, "remote")
          /\ NoteStart
     ELSE UNCHANGED <<error, attemptVars, histVars>>
  /\ UNCHANGED <<mounted, dataArray, isActive, prefVars, audioLevel, playbackState,
                 refVars, stream, engine, nodeVars, rafPending>>

MediaPause ==
  /\ Event
  /\ IF InitialRender.isActive
     THEN stopAmbientSound /\ NoteStop
     ELSE UNCHANGED <<isActive, audioLevel, playbackState, refVars, stream,
                      engine, rafPending, histVars>>
  /\ UNCHANGED <<mounted, dataArray, prefVars, error, attemptVars, nodeVars>>

MediaStop ==
  /\ Event
  /\ cleanup
  /\ isActive' = SetState(isActive, FALSE)
  /\ audioLevel' = SetState(audioLevel, 0)
  /\ playbackState' = "paused"
  /\ NoteStop
  /\ UNCHANGED <<mounted, dataArray, prefVars, error, attemptVars, nodeVars>>

\* the tail the two volume-step handlers share
SetVolumeStep(newVolume) ==
  /\ outputVolume' = SetState(outputVolume, newVolume)
  /\ outputGainValue' = IF outputGainRef # NoRef
                        THEN [outputGainValue EXCEPT ![outputGainRef] = Gain(newVolume)]
                        ELSE outputGainValue
  /\ UNCHANGED <<mounted, dataArray, isActive, micGain, audioLevel, error, echoCancel,
                 noiseSuppress, autoGainControl, playbackState, refVars,
                 attemptVars, stream, engine, inputGainValue, filterFreq,
                 rafPending, histVars>>

MediaSeekBackward ==
  /\ Event
  /\ SetVolumeStep(Max(MinVolume, InitialRender.outputVolume - VolumeStep))

MediaSeekForward ==
  /\ Event
  /\ SetVolumeStep(Min(MaxVolume, InitialRender.outputVolume + VolumeStep))

\* ---------------------------------------------------------------- unmount
\* the mount effect's cleanup function: cleanup() and nothing else
Unmount ==
  /\ mounted
  /\ Event
  /\ mounted' = FALSE
  /\ cleanup
  /\ NoteStop
  /\ UNCHANGED <<isActive, prefVars, audioLevel, error, playbackState,
                 attemptVars, nodeVars, dataArray>>

\* ------------------------------------------------------------------- Next
Next ==
  \/ MainButton
  \/ \E v \in MicGainInputs : updateMicGain(v)
  \/ \E v \in VolumeInputs : updateOutputVolume(v)
  \/ toggleEchoCancel
  \/ toggleNoiseSuppress
  \/ toggleAutoGain
  \/ MediaPlay
  \/ MediaPause
  \/ MediaStop
  \/ MediaSeekBackward
  \/ MediaSeekForward
  \/ Unmount
  \/ \E i \in Attempts : GetUserMediaResolved(i)
  \/ \E i \in Attempts : GetUserMediaRejected(i)
  \/ \E i \in Attempts : ResumeResolved(i)
  \/ \E i \in Attempts : ResumeRejected(i)
  \/ \E i \in Attempts : TimerFired(i)
  \/ \E loop \in Attempts : AnimationFrame(loop)

Spec == Init /\ [][Next]_vars

\* ------------------------------------------------------- the meter alone
\* The first session is Active (main button, getUserMedia resolved, engine
\* running) and its meter has read its first buffer; from there the meter
\* runs on every buffer of Buffers.
LevelInit ==
  /\ mounted = TRUE
  /\ isActive = TRUE
  /\ micGain = DefaultMicGain
  /\ outputVolume = DefaultOutputVolume
  /\ dataArray \in MeterBuffers
  /\ audioLevel = MeterLevel[dataArray]
  /\ error = NoError
  /\ echoCancel = TRUE
  /\ noiseSuppress = TRUE
  /\ autoGainControl = FALSE
  /\ playbackState = "playing"
  /\ streamRef = 1
  /\ audioContextRef = 1
  /\ gainNodeRef = 1
  /\ outputGainRef = 1
  /\ analyserRef = 1
  /\ filterRef = 1
  /\ animationFrameRef = 1
  /\ pc = [i \in Attempts |-> IF i = 1 THEN "done" ELSE "unused"]
  /\ origin = [i \in Attempts |-> IF i = 1 THEN "ui" ELSE "none"]
  /\ snap = [i \in Attempts |-> InitialRender]
  /\ constraints = [i \in Attempts |->
                      IF i = 1
                      THEN [echoCancellation |-> TRUE, noiseSuppression |-> TRUE,
                            autoGainControl |-> FALSE]
                      ELSE NoConstraints]
  /\ stream = [i \in Attempts |-> IF i = 1 THEN "live" ELSE "none"]
  /\ engine = [i \in Attempts |-> IF i = 1 THEN "running" ELSE "none"]
  /\ inputGainValue = [i \in Attempts |->
                         IF i = 1 THEN Gain(DefaultMicGain) ELSE DefaultGain]
  /\ outputGainValue = [i \in Attempts |->
                          IF i = 1 THEN Gain(DefaultOutputVolume) ELSE DefaultGain]
  /\ filterFreq = [i \in Attempts |-> IF i = 1 THEN CutoffEnabled ELSE 0]
  /\ rafPending = {1}
  /\ stopRequested = {}
  /\ staleTimer = {}
  /\ events = 1

\* the animation frame of the running meter loop, on any buffer
SampleLevel ==
  /\ animationFrameRef \in rafPending
  /\ \E buf \in Buffers :
       updateAudioLevel(analyserRef, rafPending \ {animationFrameRef},
                        animationFrameRef, buf)
  /\ UNCHANGED <<mounted, isActive, prefVars, error, playbackState,
                 streamRef, chainRefs, attemptVars, stream, engine, nodeVars,
                 asyncVars>>

LevelNext == SampleLevel

LevelSpec == LevelInit /\ [][LevelNext]_vars


\* ================================================================ claims
AllHandlesPresent ==
  /\ streamRef # NoRef
  /\ audioContextRef # NoRef
  /\ gainNodeRef # NoRef
  /\ outputGainRef # NoRef
  /\ analyserRef # NoRef

AllHandlesAbsent ==
  /\ streamRef = NoRef
  /\ audioContextRef = NoRef
  /\ gainNodeRef = NoRef
  /\ outputGainRef = NoRef
  /\ analyserRef = NoRef

Acquired(i) == pc[i] \in {"acquiring", "resuming", "done", "failed"}

\* a step that runs stopAmbientSound, the remote stop or the unmount cleanup
StopStep ==
  \/ MainButton /\ isActive
  \/ MediaStop
  \/ Unmount
  \/ toggleEchoCancel /\ isActive
  \/ toggleAutoGain /\ isActive
  \/ toggleNoiseSuppress /\ isActive /\ ~noiseSuppress

\* C1: at most one processing session exists at any time: never more than
\* one capture stream with live tracks and never more than one open engine.
C1_AtMostOneSession ==
  /\ Cardinality(LiveStreams) <= 1
  /\ Cardinality(OpenEngines) <= 1

\* C2: a start that was suspended (in getUserMedia or in resume) when a stop
\* was issued leaves, once it has resolved, no live stream and no open
\* engine of its own, and isActive is false when every completed start is
\* such a start.
C2_StopDuringStartEndsIdle ==
  /\ \A i \in stopRequested :
       pc[i] = "done" => stream[i] # "live" /\ i \notin OpenEngines
  /\ ( /\ mounted
       /\ \E i \in Attempts : pc[i] = "done"
       /\ \A i \in Attempts : pc[i] = "done" => i \in stopRequested )
     => ~isActive

\* C3: a start attempt that has failed holds no live capture stream and
\* streamRef does not keep its stream.
C3_FailedStartReleasesStream ==
  \A i \in Attempts :
    pc[i] = "failed" => stream[i] # "live" /\ streamRef # i

\* C4: whenever the mounted controller is Active every handle is non-null,
\* and every stop or teardown step ends with every handle null and, while
\* the component's state exists, audioLevel 0.
C4_HandlesAllOrNone ==
  [][ /\ (mounted' /\ isActive') => AllHandlesPresent'
      /\ StopStep => (AllHandlesAbsent' /\ (mounted' => audioLevel' = 0)) ]_vars

\* C5: a delayed restart during whose 100 ms delay a stop, a teardown or a
\* newer start was issued never calls getUserMedia.
C5_StaleRestartDiscarded ==
  \A i \in staleTimer : ~Acquired(i)

\* C6: when the delayed restart scheduled by toggleEchoCancel or
\* toggleAutoGain calls getUserMedia, the request carries the current
\* (post-toggle) echoCancellation and autoGainControl flags.
C6_RestartUsesNewFlags ==
  [][ \A i \in Attempts :
        ( /\ origin[i] \in {"toggleEchoCancel", "toggleAutoGain"}
          /\ pc[i] = "timer"
          /\ pc'[i] = "acquiring" )
        => /\ constraints'[i].echoCancellation = echoCancel'
           /\ constraints'[i].autoGainControl = autoGainControl' ]_vars

\* C7: toggling noise suppression sets the live filter's cutoff to the value
\* of the new flag, and the session a noise-suppression rebuild completes
\* has the cutoff of the flag (200 enabled, 80 disabled).
C7_CutoffFollowsFlag ==
  [][ /\ (toggleNoiseSuppress /\ filterRef # NoRef)
         => filterFreq'[filterRef] = (IF noiseSuppress' THEN 200 ELSE 80)
      /\ \A i \in Attempts :
           ( /\ origin[i] = "toggleNoiseSuppress"
             /\ pc[i] # "done"
             /\ pc'[i] = "done" )
           => /\ filterRef' = i
              /\ filterFreq'[i] = (IF noiseSuppress' THEN 200 ELSE 80) ]_vars

\* C8: updateMicGain(v) and updateOutputVolume(v) store v in the preference
\* in every state; when the gain stage exists its gain becomes exactly
\* v / 100; isActive, the stream, the engine and the analyser are untouched.
SessionKept ==
  UNCHANGED <<isActive, streamRef, audioContextRef, analyserRef, stream, engine>>

C8_LiveGainUpdate ==
  [][ /\ \A v \in MicGainInputs :
           updateMicGain(v)
           => /\ micGain' = v
              /\ gainNodeRef # NoRef => inputGainValue'[gainNodeRef] = <<v, 100>>
              /\ SessionKept
      /\ \A v \in VolumeInputs :
           updateOutputVolume(v)
           => /\ outputVolume' = v
              /\ outputGainRef # NoRef => outputGainValue'[outputGainRef] = <<v, 100>>
              /\ SessionKept ]_vars

\* C8 witness: a session built with mic gain 80 and output volume 60 is
\* Active, its input stage has been set live to 0 / 100 and its output stage
\* to 95 / 100
C8_Witness ==
  /\ isActive
  /\ AllHandlesPresent
  /\ snap[gainNodeRef].micGain = DefaultMicGain
  /\ micGain = 0
  /\ inputGainValue[gainNodeRef] = <<0, 100>>
  /\ snap[outputGainRef].outputVolume = DefaultOutputVolume
  /\ outputVolume = 95
  /\ outputGainValue[outputGainRef] = <<95, 100>>

\* C9: the remote actions cause the transitions of the main button: a remote
\* pause while Active stops the session, a remote play while Idle starts an
\* acquisition, a remote play while Active starts none.
C9_RemoteSameAsButton ==
  [][ /\ (MediaPause /\ mounted /\ isActive)
         => (~isActive' /\ AllHandlesAbsent')
      /\ (MediaPlay /\ mounted /\ ~isActive)
         => \E i \in Attempts : pc[i] = "unused" /\ pc'[i] = "acquiring"
      /\ (MediaPlay /\ mounted /\ isActive) => pc' = pc ]_vars

\* C10: a remote volume step moves outputVolume by 10 from its current
\* value, clamped to 0..100, and sets the live output gain to the new
\* value / 100.
C10_VolumeStepRelative ==
  [][ /\ (MediaSeekForward /\ mounted)
         => outputVolume' = Min(100, outputVolume + 10)
      /\ (MediaSeekBackward /\ mounted)
         => outputVolume' = Max(0, outputVolume - 10)
      /\ ((MediaSeekForward \/ MediaSeekBackward) /\ mounted /\ outputGainRef # NoRef)
         => outputGainValue'[outputGainRef] = <<outputVolume', 100>> ]_vars

\* what cleanup writes
cleanupVars == <<refVars, stream, engine, rafPending>>

\* a call of cleanup in this state would change nothing
CleanupChangesNothing == ENABLED (cleanup /\ UNCHANGED cleanupVars)

\* C11: a step that runs cleanup ends with every handle null, no animation
\* frame pending and no capture stream with live tracks, in a state where a
\* second cleanup would change nothing; and a step that runs cleanup while
\* no handle is held changes nothing of what cleanup writes.
C11_CleanupIdempotent ==
  [][ /\ StopStep
         => /\ AllHandlesAbsent'
            /\ filterRef' = NoRef
            /\ animationFrameRef' = NoRef
            /\ rafPending' = {}
            /\ LiveStreams' = {}
            /\ CleanupChangesNothing'
      /\ (StopStep /\ AllHandlesAbsent) => UNCHANGED cleanupVars ]_vars

\* attempt i fails in this step: its catch block runs
Fails(i) == pc[i] \in {"acquiring", "resuming"} /\ pc'[i] = "failed"

\* attempt i calls getUserMedia in this step
Acquires(i) == pc[i] # "acquiring" /\ pc'[i] = "acquiring"

\* C12: while the component is mounted, the step in which a start attempt
\* fails ends with isActive false and one of the error messages in the
\* error slot and starts or schedules no other attempt; and every step in
\* which an attempt calls getUserMedia ends with the error slot cleared.
C12_FailureEndsIdle ==
  [][ \A i \in Attempts :
        /\ (Fails(i) /\ mounted)
           => /\ ~isActive'
              /\ error' \in {ErrorMessage(n) :
                               n \in CaptureErrorNames \cup {EngineErrorName}}
              /\ \A j \in Attempts \ {i} : pc'[j] = pc[j]
        /\ (Acquires(i) /\ mounted) => error' = NoError ]_vars

\* the messages of the four kinds of acquisition failure
CaptureMessages == {ErrorMessage(n) : n \in CaptureErrorNames}

\* C13: the four kinds of acquisition failure have four different messages,
\* a failed getUserMedia shows one of them, and an attempt that fails after
\* its stream was acquired (engine construction or resume) shows a message
\* that is none of the four.
C13_MessagesDistinct ==
  [][ /\ Cardinality(CaptureMessages) = Cardinality(CaptureErrorNames)
      /\ \A i \in Attempts :
           (Fails(i) /\ mounted)
           => IF stream'[i] = "none"
              THEN error' \in CaptureMessages
              ELSE error' \notin CaptureMessages ]_vars

\* the buffer the meter read last is silent: every sample is 128
Silent == \A k \in 1..Len(dataArray) : dataArray[k] = 128

\* the buffer the meter read last alternates between 0 and 255
FullScale ==
  \/ \A k \in 1..Len(dataArray) : dataArray[k] = (IF k % 2 = 1 THEN 0 ELSE 255)
  \/ \A k \in 1..Len(dataArray) : dataArray[k] = (IF k % 2 = 1 THEN 255 ELSE 0)

\* C14: the level L shown after the meter read n samples d with
\* S = sum of (d - 128)^2, that is x = 300 * sqrt(S / (128^2 * n)), lies in
\* 0..100 and is min(100, round(x)): L - 1/2 <= x when L > 0 and
\* x < L + 1/2 when L < 100 (squared, times 4 * 128^2 * n, divided by 64);
\* a silent buffer gives 0 and a buffer alternating 0 and 255 gives 100.
C14_LevelFormula ==
  LET S == SumSquares(dataArray)
      n == Len(dataArray)
      L == audioLevel
  IN /\ L \in 0..100
     /\ L > 0 => (2 * L - 1) * (2 * L - 1) * 256 * n <= 5625 * S
     /\ L < 100 => 5625 * S < (2 * L + 1) * (2 * L + 1) * 256 * n
     /\ Silent => L = 0
     /\ FullScale => L = 100

\* C14 witness: the meter has read a buffer alternating 0 and 255 and shows 100
C14_Witness ==
  /\ FullScale
  /\ dataArray[1] = 255
  /\ audioLevel = 100

\* this step tears the session down and queues a delayed start
Rebuilds ==
  /\ AllHandlesAbsent'
  /\ ~isActive'
  /\ \E i \in Attempts : pc[i] = "unused" /\ pc'[i] = "timer"

\* this step touches no session and no start attempt
OnlyFlips ==
  UNCHANGED <<isActive, refVars, stream, engine, nodeVars, rafPending, pc>>

\* C15: each of the three toggles, taken while Active, stops the session in
\* the same step and queues a delayed start, whether the flag goes on or
\* off; taken while not Active it flips its flag and touches neither the
\* session nor any start attempt.
C15_TogglesRebuild ==
  [][ /\ (toggleNoiseSuppress /\ isActive) => Rebuilds
      /\ (toggleEchoCancel /\ isActive) => Rebuilds
      /\ (toggleAutoGain /\ isActive) => Rebuilds
      /\ (toggleNoiseSuppress /\ ~isActive)
         => (noiseSuppress' = ~noiseSuppress /\ OnlyFlips)
      /\ (toggleEchoCancel /\ ~isActive)
         => (echoCancel' = ~echoCancel /\ OnlyFlips)
      /\ (toggleAutoGain /\ ~isActive)
         => (autoGainControl' = ~autoGainControl /\ OnlyFlips) ]_vars

\* C16: a meter callback that runs while the analyser exists writes the
\* level and requests its next frame; one that runs after the session was
\* torn down writes nothing and requests nothing; a stop or teardown step
\* cancels the frame held in animationFrameRef; and at most one meter
\* callback is pending at any time.
C16_MeterLoopBounded ==
  [][ /\ \A loop \in Attempts :
           AnimationFrame(loop)
           => IF analyserRef # NoRef
              THEN loop \in rafPending' /\ animationFrameRef' = loop
              ELSE /\ UNCHANGED <<audioLevel, animationFrameRef>>
                   /\ rafPending' = rafPending \ {loop}
      /\ StopStep => (animationFrameRef' = NoRef /\ animationFrameRef \notin rafPending')
      /\ Cardinality(rafPending') <= 1 ]_vars

\* the chain of attempt i has been built and configured
Built(i) == filterFreq[i] # 0

\* attempt i reaches the end of startAmbientSound in this step
Completes(i) == pc[i] \in {"acquiring", "resuming"} /\ pc'[i] = "done"

\* C17: for every start attempt, an engine exists only once its stream was
\* acquired; while it awaits getUserMedia it has neither, while it awaits
\* resume() its engine is suspended, its chain is not built and its meter
\* has not started; the step in which it completes has the engine running
\* and the chain built and is the only step that sets isActive or starts
\* its meter loop; a failed attempt has no chain and no meter loop.
C17_StartOrder ==
  [][ /\ \A i \in Attempts :
           /\ engine'[i] # "none" => stream'[i] # "none"
           /\ pc'[i] = "acquiring" => (stream'[i] = "none" /\ engine'[i] = "none")
           /\ pc'[i] = "resuming"
              => (engine'[i] = "suspended" /\ ~Built(i)' /\ i \notin rafPending')
           /\ Completes(i)
              => /\ engine'[i] = "running"
                 /\ Built(i)'
                 /\ analyserRef' = i
                 /\ i \in rafPending'
                 /\ mounted => isActive'
           /\ (i \notin rafPending /\ i \in rafPending') => Completes(i)
           /\ pc'[i] = "failed" => (~Built(i)' /\ i \notin rafPending')
      /\ (~isActive /\ isActive') => \E i \in Attempts : Completes(i) ]_vars

\* C17 witness: of three attempts one has completed and runs its meter, one
\* failed in engine construction after its stream was acquired and has no
\* meter, one awaits resume()
C17_Witness ==
  \E i, j, k \in Attempts :
    /\ pc[i] = "done" /\ engine[i] = "running" /\ i \in rafPending /\ isActive
    /\ pc[j] = "failed" /\ stream[j] = "live" /\ j \notin rafPending
    /\ pc[k] = "resuming" /\ engine[k] = "suspended"

\* C18: while the mounted controller is Active, the gain of the input stage
\* is micGain / 100 and the gain of the output stage is outputVolume / 100.
C18_GainsFollowPreferences ==
  (mounted /\ isActive /\ gainNodeRef # NoRef /\ outputGainRef # NoRef)
  => /\ inputGainValue[gainNodeRef] = <<micGain, 100>>
     /\ outputGainValue[outputGainRef] = <<outputVolume, 100>>

====
